---------------------------- MODULE Spec2Model ----------------------------
(***************************************************************************)
(* Model of api_functions.py: get_definitions (one dictionary lookup) and  *)
(* process_file (the batch pass over an input file of words).              *)
(*                                                                         *)
(* A Python str is a sequence of characters; a character is a one-symbol   *)
(* string.  The non-ASCII characters that matter are named: "jcomma" is    *)
(* the Japanese comma U+3001, "inu", "neko", "tori" are the kanji of the   *)
(* examples, "i" and "nu" the two kana of the reading of "inu".            *)
(***************************************************************************)
EXTENDS Integers, Sequences, FiniteSets, TLC

\* Longest input file content explored, in characters.
MaxLen == 4

JCOMMA == "jcomma"
COMMA == ","
SPACE == " "
TAB == "\t"
NL == "\n"

\* Characters an input file is built from.
Chars == {"a", "b", COMMA, JCOMMA, SPACE, TAB, NL}

\* The characters of the alphabet that str.strip() removes.
Whitespace == {SPACE, TAB, NL}

\* The characters the batch processor splits a line on.
Separators == {COMMA, JCOMMA, SPACE}

\* All input file contents of at most MaxLen characters.
Contents == UNION {[1..n -> Chars] : n \in 0..MaxLen}

---------------------------------------------------------------------------
(* Python str methods, as the code uses them *)

\* s.replace(old, new) for one-character old and new
replace(s, old, new) == [i \in 1..Len(s) |-> IF s[i] = old THEN new ELSE s[i]]

RECURSIVE lstrip(_)
lstrip(s) ==
    IF s = <<>> THEN <<>>
    ELSE IF Head(s) \in Whitespace THEN lstrip(Tail(s))
    ELSE s

RECURSIVE rstrip(_)
rstrip(s) ==
    IF s = <<>> THEN <<>>
    ELSE IF s[Len(s)] \in Whitespace THEN rstrip(SubSeq(s, 1, Len(s) - 1))
    ELSE s

\* s.strip()
strip(s) == rstrip(lstrip(s))

\* Index of the first occurrence of c in s, 0 when there is none.
find(s, c) ==
    IF \E i \in 1..Len(s) : s[i] = c
    THEN CHOOSE i \in 1..Len(s) : s[i] = c /\ \A j \in 1..(i - 1) : s[j] # c
    ELSE 0

\* s.split(sep): always at least one piece, empty pieces kept
RECURSIVE split(_, _)
split(s, sep) ==
    LET i == find(s, sep) IN
    IF i = 0 THEN <<s>>
    ELSE <<SubSeq(s, 1, i - 1)>> \o split(SubSeq(s, i + 1, Len(s)), sep)

\* Iterating a text file: lines keep their trailing newline.
RECURSIVE readlines(_)
readlines(text) ==
    LET i == find(text, NL) IN
    IF text = <<>> THEN <<>>
    ELSE IF i = 0 THEN <<text>>
    ELSE <<SubSeq(text, 1, i)>> \o readlines(SubSeq(text, i + 1, Len(text)))

\* sep.join(parts)
RECURSIVE join(_, _)
join(sep, parts) ==
    IF parts = <<>> THEN <<>>
    ELSE IF Len(parts) = 1 THEN parts[1]
    ELSE parts[1] \o sep \o join(sep, Tail(parts))

RECURSIVE concat(_)
concat(parts) == IF parts = <<>> THEN <<>> ELSE Head(parts) \o concat(Tail(parts))

---------------------------------------------------------------------------
(* Tokenisation in process_file *)

\* count_line counting the separators instead of the pieces.
count_line_separators(line) ==
    Len(split(replace(strip(replace(line, JCOMMA, COMMA)), SPACE, COMMA), COMMA)) - 1

\* First pass, one line: the number of pieces, empty ones included.
count_line(line) ==
    Len(split(replace(strip(replace(line, JCOMMA, COMMA)), SPACE, COMMA), COMMA))

RECURSIVE sum_lines(_)
sum_lines(ls) == IF ls = <<>> THEN 0 ELSE count_line(Head(ls)) + sum_lines(Tail(ls))

\* First pass over the whole file.
count_total(text) == sum_lines(readlines(text))

\* words_of_line filtering on `if word` and never stripping.
words_of_line_unstripped(line) ==
    LET pieces == split(replace(replace(line, JCOMMA, COMMA), SPACE, COMMA), COMMA)
    IN SelectSeq(pieces, LAMBDA w : w # <<>>)

\* Main pass, one line: the stripped non-empty pieces.
words_of_line(line) ==
    LET pieces == split(replace(replace(line, JCOMMA, COMMA), SPACE, COMMA), COMMA)
        kept == SelectSeq(pieces, LAMBDA w : strip(w) # <<>>)
    IN [i \in 1..Len(kept) |-> strip(kept[i])]

---------------------------------------------------------------------------
(* get_definitions *)

HTTP_OK == 200

\* entry['senses'][:3]
MaxSenses == 3

\* [...][:3] of the flattened definitions
MaxDefinitions == 3

\* Python values get_definitions handles or returns.
PyNone == [t |-> "NoneType"]
PyStr(s) == [t |-> "str", v |-> s]
PyTuple(japanese_word, reading, definitions) ==
    [t |-> "tuple", japanese_word |-> japanese_word, reading |-> reading,
     definitions |-> definitions]
Raise(exc) == [t |-> "raise", exc |-> exc]

\* bool(x) for a str or None
Truthy(x) == x.t = "str" /\ x.v # <<>>

\* d.get(key, default) on a JSON object whose values are strings
dict_get(d, key, default) == IF key \in DOMAIN d THEN PyStr(d[key]) ELSE default

\* seq[:n]
take(seq, n) == SubSeq(seq, 1, IF Len(seq) < n THEN Len(seq) ELSE n)

\* Lines 27-35: the first entry of a non-empty result list.
parse_entry(entry) ==
    IF "japanese" \notin DOMAIN entry THEN Raise("KeyError")
    ELSE IF entry.japanese = <<>> THEN Raise("IndexError")
    ELSE IF "senses" \notin DOMAIN entry THEN Raise("KeyError")
    ELSE IF \E i \in 1..Len(take(entry.senses, MaxSenses)) :
                "english_definitions" \notin DOMAIN entry.senses[i]
         THEN Raise("KeyError")
    ELSE
        LET reading == dict_get(entry.japanese[1], "reading", PyNone)
            japanese_word == dict_get(entry.japanese[1], "word", reading)
            senses == take(entry.senses, MaxSenses)
            definitions == [i \in 1..Len(senses) |-> senses[i].english_definitions]
            flattened_definitions == take(concat(definitions), MaxDefinitions)
        IN IF ~(Truthy(reading) /\ Truthy(japanese_word) /\ flattened_definitions # <<>>)
           THEN PyNone
           ELSE PyTuple(japanese_word.v, reading.v, flattened_definitions)

\* What get_definitions does with the outcome of requests.get(url).
get_definitions(response) ==
    IF response.kind = "ConnectionError" THEN Raise("ConnectionError")
    ELSE IF response.status_code # HTTP_OK THEN PyNone
    ELSE IF "data" \notin DOMAIN response.json THEN Raise("KeyError")
    ELSE IF response.json.data = <<>> THEN PyNone
    ELSE parse_entry(response.json.data[1])

\* Outcomes of one HTTP GET: the connection fails, or a response arrives.
ConnectionError == [kind |-> "ConnectionError"]
Response(status_code, json) ==
    [kind |-> "Response", status_code |-> status_code, json |-> json]
Found(entries) == Response(HTTP_OK, [data |-> entries])

INU == <<"inu">>
INU_READING == <<"i", "nu">>
DOG == <<"d", "o", "g">>
HOUND == <<"h", "o", "u", "n", "d">>

\* An entry with a surface form different from its reading.
EntryInu ==
    [japanese |-> <<[word |-> INU, reading |-> INU_READING]>>,
     senses |-> <<[english_definitions |-> <<DOG>>]>>]

\* An entry without a word field, four senses and five definitions.
EntryKana ==
    [japanese |-> <<[reading |-> INU_READING]>>,
     senses |-> <<[english_definitions |-> <<DOG, HOUND>>],
                  [english_definitions |-> <<>>],
                  [english_definitions |-> <<<<"x">>, <<"y">>>>],
                  [english_definitions |-> <<<<"z">>>>]>>]

\* An entry whose word field repeats the reading.
EntryWordIsReading ==
    [japanese |-> <<[word |-> INU_READING, reading |-> INU_READING]>>,
     senses |-> <<[english_definitions |-> <<DOG>>, parts_of_speech |-> <<>>]>>]

\* Entries that lack something.
EntryNoReading ==
    [japanese |-> <<[word |-> INU]>>, senses |-> <<[english_definitions |-> <<DOG>>]>>]
EntryEmptyWord ==
    [japanese |-> <<[word |-> <<>>, reading |-> INU_READING]>>,
     senses |-> <<[english_definitions |-> <<DOG>>]>>]
EntryNoSenses ==
    [japanese |-> <<[word |-> INU, reading |-> INU_READING]>>, senses |-> <<>>]
EntryNoJapanese ==
    [japanese |-> <<>>, senses |-> <<[english_definitions |-> <<DOG>>]>>]
EntryNoDefinitionsKey ==
    [japanese |-> <<[word |-> INU, reading |-> INU_READING]>>,
     senses |-> <<[parts_of_speech |-> <<>>]>>]

\* The outcomes of requests.get explored for each lookup.
Responses ==
    {ConnectionError,
     Response(404, [data |-> <<>>]),
     Found(<<>>),
     Found(<<EntryInu>>),
     Found(<<EntryKana, EntryInu>>),
     Found(<<EntryWordIsReading>>),
     Found(<<EntryNoReading>>),
     Found(<<EntryEmptyWord>>),
     Found(<<EntryNoSenses>>),
     Found(<<EntryNoJapanese>>),
     Found(<<EntryNoDefinitionsKey>>)}

---------------------------------------------------------------------------
(* process_file *)

VARIABLES
    infile_text,      \* content of the input file
    outfile,          \* the output file on disk: does it exist, and its text
    outfile0,         \* the output file on disk before the call
    pc,               \* position of process_file
    exc,              \* the exception process_file raised, "" for none
    total_words,      \* result of the first pass
    words_checked,    \* running counter
    lines,            \* lines of the input file not yet read by the main pass
    words,            \* tokens of the current line not yet processed
    not_found_words,  \* the not-found list
    events,           \* calls made so far, in order
    response,         \* outcome of the latest requests.get
    lookups           \* every lookup so far: its word and what it gave back

vars == <<infile_text, outfile, outfile0, pc, exc, total_words, words_checked,
          lines, words, not_found_words, events, response, lookups>>

\* No requests.get has been made yet.
NoResponse == [kind |-> "none"]

Ev(name, arg) == [ev |-> name, arg |-> arg]

\* Text an earlier run left in the output file.
OldText == <<"o", "l", "d", NL>>

Absent == [exists |-> FALSE, text |-> <<>>]
InitialOutfiles == {Absent, [exists |-> TRUE, text |-> OldText]}

\* open(output_filename, 'w'): creates or truncates
open_w(file) == [exists |-> TRUE, text |-> <<>>]

\* outfile.write(text)
write(file, text) == [file EXCEPT !.text = @ \o text]

Init ==
    /\ infile_text \in Contents
    /\ outfile \in InitialOutfiles
    /\ outfile0 = outfile
    /\ pc = "start"
    /\ exc = ""
    /\ total_words = 0
    /\ words_checked = 0
    /\ lines = <<>>
    /\ words = <<>>
    /\ not_found_words = <<>>
    /\ events = <<>>
    /\ response = NoResponse
    /\ lookups = <<>>

\* format_record without the comparison: the bracketed reading always.
format_record_bracketed(result) ==
    result.japanese_word \o <<"[">> \o result.reading \o <<"]", ";">>
        \o join(<<",", " ">>, result.definitions) \o <<";", NL>>

\* Lines 68-71: the record of a found word.
format_record(result) ==
    IF result.japanese_word = result.reading
    THEN result.reading \o <<";">> \o join(<<",", " ">>, result.definitions)
             \o <<";", NL>>
    ELSE result.japanese_word \o <<"[">> \o result.reading \o <<"]", ";">>
             \o join(<<",", " ">>, result.definitions) \o <<";", NL>>

\* "\nDefinition Not Found:\n"
NotFoundHeader ==
    <<NL, "D", "e", "f", "i", "n", "i", "t", "i", "o", "n", " ", "N", "o", "t",
      " ", "F", "o", "u", "n", "d", ":", NL>>

\* not_found_writes without the test of line 79: the header always.
not_found_writes_unconditional(nf) ==
    <<NotFoundHeader>> \o [i \in 1..Len(nf) |-> nf[i] \o <<NL>>]

\* Lines 79-82: the texts written after the loop, one per write call.
not_found_writes(nf) ==
    IF nf = <<>> THEN <<>>
    ELSE <<NotFoundHeader>> \o [i \in 1..Len(nf) |-> nf[i] \o <<NL>>]

\* Lines 49-53: the first pass.  A failed open raises out of process_file.
CountWords ==
    /\ pc = "start"
    /\ \E ok \in BOOLEAN :
         IF ok
         THEN /\ total_words' = count_total(infile_text)
              /\ pc' = "counted"
              /\ exc' = exc
         ELSE /\ total_words' = total_words
              /\ pc' = "raised"
              /\ exc' = "FileNotFoundError"
    /\ UNCHANGED <<infile_text, outfile, outfile0, words_checked, lines, words,
                   not_found_words, events, response, lookups>>

\* OpenFiles with the two opens of the with statement exchanged: the output
\* file is created or truncated before the input file is opened.
OpenFilesOutputFirst ==
    /\ pc = "counted"
    /\ outfile' = open_w(outfile)
    /\ events' = events \o <<Ev("open_outfile", <<>>)>>
    /\ \E ok \in BOOLEAN :
         IF ok
         THEN /\ lines' = readlines(infile_text)
              /\ pc' = "main"
              /\ exc' = exc
         ELSE /\ lines' = lines
              /\ pc' = "raised"
              /\ exc' = "FileNotFoundError"
    /\ UNCHANGED <<infile_text, outfile0, total_words, words_checked, words,
                   not_found_words, response, lookups>>

\* Lines 55-57: the with statement opens infile, then outfile.
OpenFiles ==
    /\ pc = "counted"
    /\ \E ok \in BOOLEAN :
         IF ok
         THEN /\ outfile' = open_w(outfile)
              /\ lines' = readlines(infile_text)
              /\ events' = events \o <<Ev("open_outfile", <<>>)>>
              /\ pc' = "main"
              /\ exc' = exc
         ELSE /\ UNCHANGED <<outfile, lines, events>>
              /\ pc' = "raised"
              /\ exc' = "FileNotFoundError"
    /\ UNCHANGED <<infile_text, outfile0, total_words, words_checked, words,
                   not_found_words, response, lookups>>

\* Lines 58-60: read the next line and tokenise it.
ReadLine ==
    /\ pc = "main"
    /\ words = <<>>
    /\ lines # <<>>
    /\ words' = words_of_line(Head(lines))
    /\ lines' = Tail(lines)
    /\ UNCHANGED <<infile_text, outfile, outfile0, pc, exc, total_words,
                   words_checked, not_found_words, events, response, lookups>>

\* Lines 62-77: one token.  An exception leaves the with block, which
\* closes both files, and propagates to the caller.
CheckWord ==
    /\ pc = "main"
    /\ words # <<>>
    /\ \E r \in Responses :
         LET word == Head(words)
             result == get_definitions(r)
             called == events \o <<Ev("update_checking_label", word),
                                   Ev("get_definitions", word)>>
             found == result.t = "tuple"
             acted == called \o
                        IF found
                        THEN <<Ev("write", format_record(result))>>
                        ELSE <<Ev("append", word)>>
         IN /\ response' = r
            /\ lookups' = Append(lookups, [word |-> word, result |-> result])
            /\ IF result.t = "raise"
               THEN /\ events' = called \o <<Ev("close_outfile", <<>>)>>
                    /\ pc' = "raised"
                    /\ exc' = result.exc
                    /\ words' = Tail(words)
                    /\ UNCHANGED <<outfile, not_found_words, words_checked>>
               ELSE /\ outfile' = IF found THEN write(outfile, format_record(result))
                                  ELSE outfile
                    /\ not_found_words' = IF found THEN not_found_words
                                          ELSE Append(not_found_words, word)
                    /\ words_checked' = words_checked + 1
                    /\ words' = Tail(words)
                    /\ IF total_words = 0
                       THEN /\ events' = acted \o <<Ev("close_outfile", <<>>)>>
                            /\ pc' = "raised"
                            /\ exc' = "ZeroDivisionError"
                       ELSE /\ events' = Append(acted,
                                   Ev("progress_callback", <<words_checked', total_words>>))
                            /\ pc' = pc
                            /\ exc' = exc
    /\ UNCHANGED <<infile_text, outfile0, total_words, lines>>

\* WriteNotFound with a call of clear_checking_label inside the with block.
WriteNotFoundClearsInside ==
    /\ pc = "main"
    /\ words = <<>>
    /\ lines = <<>>
    /\ LET texts == not_found_writes(not_found_words) IN
         /\ outfile' = write(outfile, concat(texts))
         /\ events' = events \o [i \in 1..Len(texts) |-> Ev("write", texts[i])]
                          \o <<Ev("clear_checking_label", <<>>),
                               Ev("close_outfile", <<>>)>>
    /\ pc' = "closed"
    /\ UNCHANGED <<infile_text, outfile0, exc, total_words, words_checked,
                   lines, words, not_found_words, response, lookups>>

\* Lines 79-82 and the end of the with block.
WriteNotFound ==
    /\ pc = "main"
    /\ words = <<>>
    /\ lines = <<>>
    /\ LET texts == not_found_writes(not_found_words) IN
         /\ outfile' = write(outfile, concat(texts))
         /\ events' = events \o [i \in 1..Len(texts) |-> Ev("write", texts[i])]
                          \o <<Ev("close_outfile", <<>>)>>
    /\ pc' = "closed"
    /\ UNCHANGED <<infile_text, outfile0, exc, total_words, words_checked,
                   lines, words, not_found_words, response, lookups>>

\* Line 84.
ClearCheckingLabel ==
    /\ pc = "closed"
    /\ events' = Append(events, Ev("clear_checking_label", <<>>))
    /\ pc' = "done"
    /\ UNCHANGED <<infile_text, outfile, outfile0, exc, total_words,
                   words_checked, lines, words, not_found_words, response, lookups>>

Next ==
    \/ CountWords
    \/ OpenFiles
    \/ ReadLine
    \/ CheckWord
    \/ WriteNotFound
    \/ ClearCheckingLabel

Spec == Init /\ [][Next]_vars

---------------------------------------------------------------------------
(* Vocabulary of the properties, stated without the operators of the code *)

Min(S) == CHOOSE x \in S : \A y \in S : x <= y
Max(S) == CHOOSE x \in S : \A y \in S : x >= y

RECURSIVE Flatten(_)
Flatten(ss) == IF ss = <<>> THEN <<>> ELSE Head(ss) \o Flatten(Tail(ss))

\* A piece without its leading and trailing whitespace.
Trim(p) ==
    LET solid == {i \in 1..Len(p) : p[i] \notin Whitespace}
    IN IF solid = {} THEN <<>> ELSE SubSeq(p, Min(solid), Max(solid))

\* A piece as a token: trimmed, and dropped when nothing is left.
AsToken(p) == IF Trim(p) = <<>> THEN <<>> ELSE <<Trim(p)>>

\* The tokens of rest, read left to right, after the tokens acc and with
\* the characters of piece read since the last separator.
RECURSIVE Scan(_, _, _)
Scan(rest, piece, acc) ==
    IF rest = <<>> THEN acc \o AsToken(piece)
    ELSE IF Head(rest) \in Separators
         THEN Scan(Tail(rest), <<>>, acc \o AsToken(piece))
         ELSE Scan(Tail(rest), Append(piece, Head(rest)), acc)

\* The word tokens of a line: its maximal separator-free pieces, trimmed,
\* the empty ones dropped.
Tokens(line) == Scan(line, <<>>, <<>>)

\* The word tokens of a whole file.
FileTokens(text) ==
    LET ls == readlines(text) IN Flatten([k \in 1..Len(ls) |-> Tokens(ls[k])])

\* The tokens the main pass has taken up so far, in order.
Processed == [i \in 1..Len(lookups) |-> lookups[i].word]

\* The lines the main pass has read so far.
ConsumedLines ==
    LET ls == readlines(infile_text) IN SubSeq(ls, 1, Len(ls) - Len(lines))

InMainPass == pc \in {"main", "closed", "done"} \/ (pc = "raised" /\ events # <<>>)

EventsOf(name) == SelectSeq(events, LAMBDA e : e.ev = name)

\* The values passed to progress_callback, in order, as <<numerator, denominator>>.
ProgressValues ==
    LET ps == EventsOf("progress_callback") IN [i \in 1..Len(ps) |-> ps[i].arg]

\* Position in events of the i-th lookup.
LookupAt(i) ==
    SelectSeq([k \in 1..Len(events) |-> k],
              LAMBDA k : events[k].ev = "get_definitions")[i]

\* What the i-th lookup gave back.
ResultOf(i) == lookups[i].result

---------------------------------------------------------------------------
(* C7 *)

\* C7: the tokens the main pass extracts from the lines it has read are
\* exactly the maximal pieces between separators (',', the Japanese comma,
\* ' '), trimmed, empty ones dropped, in input order; no token is empty or
\* contains a separator; the line "inu jcomma neko space tori" gives the
\* three tokens inu, neko, tori.
C7_MainPassTokens ==
    /\ InMainPass =>
         /\ Processed \o words =
              Flatten([k \in 1..Len(ConsumedLines) |-> Tokens(ConsumedLines[k])])
         /\ \A i \in 1..Len(Processed) :
              /\ Processed[i] # <<>>
              /\ \A j \in 1..Len(Processed[i]) : Processed[i][j] \notin Separators
    /\ words_of_line(<<"inu", JCOMMA, "neko", SPACE, "tori">>) =
         <<<<"inu">>, <<"neko">>, <<"tori">>>>

\* A finished run over a file that uses the Japanese comma and a space or
\* a tab next to a token, and holds two different tokens.
C7_Witness ==
    /\ pc = "done"
    /\ Len(Processed) = 2
    /\ Processed[1] # Processed[2]
    /\ \E i \in 1..Len(infile_text) : infile_text[i] = JCOMMA
    /\ \E i \in 1..Len(infile_text) : infile_text[i] \in {SPACE, TAB}

---------------------------------------------------------------------------
(* C10 *)

\* C10: the total of the first pass is at least the number of tokens of the
\* file, so the division by it never fails; every value given to
\* progress_callback is in (0, 1], and the values strictly increase.
C10_ProgressRange ==
    /\ exc # "ZeroDivisionError"
    /\ pc = "counted" => total_words >= Len(FileTokens(infile_text))
    /\ InMainPass => total_words >= Len(Processed) + Len(words)
    /\ \A i \in 1..Len(ProgressValues) :
         /\ ProgressValues[i][2] > 0
         /\ 0 < ProgressValues[i][1]
         /\ ProgressValues[i][1] <= ProgressValues[i][2]
    /\ \A i \in 1..(Len(ProgressValues) - 1) :
         ProgressValues[i][1] * ProgressValues[i + 1][2]
           < ProgressValues[i + 1][1] * ProgressValues[i][2]

\* A finished run that reported progress twice against a total larger than
\* the number of tokens.
C10_Witness ==
    /\ pc = "done"
    /\ Len(ProgressValues) = 2
    /\ total_words > words_checked

---------------------------------------------------------------------------
(* C1 *)

\* C1: the value given to progress_callback after the N-th token is N/T,
\* T the number of tokens the main pass extracts from the whole file (the
\* first pass counts by the same rule), and the last value reported is 1.
C1_ProgressExact ==
    LET T == Len(FileTokens(infile_text)) IN
    /\ (pc = "counted" \/ InMainPass) => total_words = T
    /\ \A i \in 1..Len(ProgressValues) :
         ProgressValues[i][1] * T = i * ProgressValues[i][2]
    /\ (pc = "done" /\ ProgressValues # <<>>) =>
         ProgressValues[Len(ProgressValues)][1] = ProgressValues[Len(ProgressValues)][2]

---------------------------------------------------------------------------
(* C2 *)

\* The network call failed: no connection, or a status other than 200.
NetworkFailure(r) ==
    \/ r.kind = "ConnectionError"
    \/ r.kind = "Response" /\ r.status_code # HTTP_OK

\* C2: a lookup whose network call fails does not end the run: its token is
\* appended to the not-found list, its progress callback is made, the run
\* goes on to the remaining tokens and ends with clear_checking_label.
C2_NetworkFailureNotFatal ==
    /\ NetworkFailure(response) =>
         LET i == Len(lookups)
             k == LookupAt(i)
         IN /\ pc # "raised"
            /\ Len(events) >= k + 2
            /\ events[k + 1].ev = "append"
            /\ events[k + 1].arg = lookups[i].word
            /\ events[k + 2].ev = "progress_callback"
            /\ not_found_words # <<>>
            /\ not_found_words[Len(not_found_words)] = lookups[i].word
    /\ pc = "done" =>
         /\ Processed = FileTokens(infile_text)
         /\ events[Len(events)].ev = "clear_checking_label"

---------------------------------------------------------------------------
(* C3 *)

\* C3: when the input file cannot be opened, process_file fails before the
\* output file is opened: the output file is as it was before the call
\* (not created, not truncated, not written) and no callback was invoked.
C3_OpenFailure ==
    (pc = "raised" /\ exc = "FileNotFoundError") =>
        /\ outfile = outfile0
        /\ events = <<>>

\* The open of the main pass failed, after a first pass that counted
\* tokens, with an output file of an earlier run on disk.
C3_Witness ==
    /\ pc = "raised"
    /\ exc = "FileNotFoundError"
    /\ total_words > 0
    /\ outfile = [exists |-> TRUE, text |-> OldText]

---------------------------------------------------------------------------
(* C5 *)

\* The record of a lookup result, spelled out for one to three definitions.
ExpectedLine(surface, reading, defs) ==
    LET head == IF surface = reading THEN reading
                ELSE surface \o <<"[">> \o reading \o <<"]">>
        list == CASE Len(defs) = 1 -> defs[1]
                  [] Len(defs) = 2 -> defs[1] \o <<",", " ">> \o defs[2]
                  [] Len(defs) = 3 -> defs[1] \o <<",", " ">> \o defs[2]
                                        \o <<",", " ">> \o defs[3]
    IN head \o <<";">> \o list \o <<";">> \o <<NL>>

\* The lookups so far that gave a result, in order.
FoundLookups ==
    LET idx == SelectSeq([i \in 1..Len(lookups) |-> i],
                         LAMBDA i : ResultOf(i).t = "tuple")
    IN [n \in 1..Len(idx) |-> ResultOf(idx[n])]

\* The main section of the output file for the lookups so far.
ExpectedRecords ==
    Flatten([n \in 1..Len(FoundLookups) |->
               ExpectedLine(FoundLookups[n].japanese_word, FoundLookups[n].reading,
                            FoundLookups[n].definitions)])

\* C5: a token whose lookup gives (surface, reading, definitions) gets
\* exactly one line, "reading;d1, d2, d3;" when surface = reading and
\* "surface[reading];d1, d2, d3;" otherwise; (inu, i nu, [dog]) gives
\* "inu[i nu];dog;".
C5_RecordFormat ==
    /\ \A i \in 1..Len(lookups) :
         ResultOf(i).t = "tuple" =>
           LET k == LookupAt(i)
               r == ResultOf(i)
           IN /\ Len(events) >= k + 2
              /\ events[k + 1].ev = "write"
              /\ events[k + 1].arg = ExpectedLine(r.japanese_word, r.reading, r.definitions)
              /\ events[k + 2].ev = "progress_callback"
    /\ pc = "main" => outfile.text = ExpectedRecords
    /\ format_record(PyTuple(INU, INU_READING, <<DOG>>)) =
         <<"inu", "[", "i", "nu", "]", ";", "d", "o", "g", ";", NL>>

\* A finished run that wrote a record with a bracketed reading and a
\* record of three definitions without one.
C5_Witness ==
    /\ pc = "done"
    /\ Len(FoundLookups) = 2
    /\ \E n \in 1..2 : FoundLookups[n].japanese_word # FoundLookups[n].reading
    /\ \E n \in 1..2 : /\ FoundLookups[n].japanese_word = FoundLookups[n].reading
                       /\ Len(FoundLookups[n].definitions) = 3

---------------------------------------------------------------------------
(* C4 *)

\* The words of the lookups so far that gave no result, in order.
NotFoundOccurrences ==
    LET idx == SelectSeq([i \in 1..Len(lookups) |-> i],
                         LAMBDA i : ResultOf(i).t = "NoneType")
    IN [n \in 1..Len(idx) |-> lookups[idx[n]].word]

HeaderLine ==
    <<"D", "e", "f", "i", "n", "i", "t", "i", "o", "n", " ", "N", "o", "t", " ",
      "F", "o", "u", "n", "d", ":">>

\* Blank line, header, one line per word; nothing for no word.
ExpectedSection(nf) ==
    IF nf = <<>> THEN <<>>
    ELSE <<NL>> \o HeaderLine \o <<NL>>
           \o Flatten([n \in 1..Len(nf) |-> nf[n] \o <<NL>>])

\* C4: after a completed run the output file is the records of the found
\* tokens followed by the not-found section, which lists each token
\* occurrence without a result once, in input order, and is there only
\* when there is such a token.
C4_NotFoundSection ==
    pc \in {"closed", "done"} =>
        /\ not_found_words = NotFoundOccurrences
        /\ outfile.text = ExpectedRecords \o ExpectedSection(NotFoundOccurrences)

\* A finished run with two different words not found.
C4_Witness ==
    /\ pc = "done"
    /\ Len(not_found_words) = 2
    /\ not_found_words[1] # not_found_words[2]

---------------------------------------------------------------------------
(* C6 *)

\* C6: get_definitions never raises on a response; it gives a result only
\* for a successful response with a non-empty result list, and a result has
\* a non-empty surface form, a non-empty reading and one to three
\* definitions.
C6_LookupTotal ==
    response.kind = "Response" =>
        LET r == ResultOf(Len(lookups)) IN
        /\ r.t \in {"NoneType", "tuple"}
        /\ r.t = "tuple" =>
             /\ response.status_code = HTTP_OK
             /\ response.json.data # <<>>
             /\ r.japanese_word # <<>>
             /\ r.reading # <<>>
             /\ Len(r.definitions) \in 1..MaxDefinitions

---------------------------------------------------------------------------
(* C8 *)

\* C8: a run that completes calls clear_checking_label exactly once, as its
\* last event, after the output file, holding everything written, is closed.
C8_ClearLast ==
    /\ Len(EventsOf("clear_checking_label")) = (IF pc = "done" THEN 1 ELSE 0)
    /\ pc = "done" =>
         /\ events[Len(events)].ev = "clear_checking_label"
         /\ events[Len(events) - 1].ev = "close_outfile"
         /\ outfile.text =
              Flatten([n \in 1..Len(EventsOf("write")) |-> EventsOf("write")[n].arg])

\* A finished run that wrote a record and a not-found section.
C8_Witness ==
    /\ pc = "done"
    /\ Len(FoundLookups) = 1
    /\ Len(not_found_words) = 1

---------------------------------------------------------------------------
(* C9 *)

\* C9: each token occurrence, in input order, gets update_checking_label,
\* one lookup, one record write or one append to the not-found list, and one
\* progress_callback, before the next token is touched; at the end the
\* numbers of the three calls equal the number of tokens.
C9_TokenEventSequence ==
    /\ \A i \in 1..Len(lookups) :
         LET k == LookupAt(i) IN
         /\ k = 4 * (i - 1) + 3
         /\ events[k - 1].ev = "update_checking_label"
         /\ events[k - 1].arg = lookups[i].word
         /\ events[k].arg = lookups[i].word
         /\ Len(events) >= k + 2
         /\ events[k + 1].ev \in {"write", "append"}
         /\ events[k + 2].ev = "progress_callback"
         /\ events[k + 2].arg = <<i, total_words>>
    /\ InMainPass => \E n \in 0..Len(FileTokens(infile_text)) :
                        Processed = SubSeq(FileTokens(infile_text), 1, n)
    /\ pc \in {"closed", "done"} =>
         /\ Len(EventsOf("update_checking_label")) = Len(FileTokens(infile_text))
         /\ Len(EventsOf("get_definitions")) = Len(FileTokens(infile_text))
         /\ Len(EventsOf("progress_callback")) = Len(FileTokens(infile_text))

====
